---- MODULE Spec2Model ----
(***************************************************************************)
(* Model of the library-catalog command line client (src/main.cpp): the    *)
(* session setup, the role-gated menu loop, the DBManager remote-call      *)
(* wrappers and the stored procedures the client installs on the server.   *)
(*                                                                         *)
(* Text is a sequence of one-character strings, so that substring, case    *)
(* folding and ILIKE pattern matching are computed and not assumed.        *)
(* The server can fail any statement for reasons outside this model        *)
(* (permissions, procedures missing in the administrative database, a      *)
(* terminated session): that is the input "fault" of every remote call.    *)
(* A failed "cin >>" leaves the value read unspecified; the choice, id and *)
(* year are drawn from the whole input sets, which covers it.              *)
(***************************************************************************)
EXTENDS Integers, Sequences, FiniteSets, TLC

VARIABLES
    pc,              \* position of main: Connecting, Provisioning, AwaitingChoice,
                     \* ExecutingAction (inside the try block), Exited, Aborted
    username,        \* the username entered at the prompt
    isAdmin,         \* main: bool isAdmin
    exitFlag,        \* main: bool exitFlag
    g_printNotices,  \* the global notice flag
    choice,          \* main: int choice
    args,            \* the locals read inside the branch (id, title or filter, other fields)
    books,           \* vector<Book> returned by searchBookByTitle in this iteration
    outs,            \* outcome lines printed in this iteration (cout success / cerr error)
    call,            \* the DBManager call of this iteration: method, statements issued,
                     \* last status, server error text
    primaryOpen,     \* DBManager::conn_ is an open connection
    adminOpen,       \* number of connTemp connections opened and not PQfinish-ed
    tableState,      \* server: "absent", "present", or "clash" (only a table whose name
                     \* differs from tableName in letter case exists)
    rows,            \* server: the rows of the table
    nextId,          \* server: next value of the id SERIAL sequence
    echoed,          \* notices written to cerr in this iteration (or in provisioning)
    written          \* history: for each id, the fields the operator last sent for it with a
                     \* successful addBook ("add") or updateBook ("update"), until a
                     \* successful delete of that title or a clear

vars == <<pc, username, isAdmin, exitFlag, g_printNotices, choice, args, books, outs,
          call, primaryOpen, adminOpen, tableState, rows, nextId, echoed, written>>

(***************************************************************************)
(* Bounds and input sets                                                   *)
(***************************************************************************)
MaxId == 2              \* rows ever inserted into the table
MaxAdminConns == 1      \* administrative connections the server still accepts

Usernames == {"admin", "Admin", "guest"}
Choices == 0..12
Titles == { <<"a">>, <<"A">>, <<"A", "\\">> }
Filters == { <<>>, <<"a">>, <<"\\">>, <<"_">> }
Rests == { [author |-> "Herbert", publisher |-> "Ace", year |-> 1965],
           [author |-> "Asimov", publisher |-> "Gnome", year |-> -51] }
IdInputs == 0..MaxId
TableStates == {"absent", "present", "clash"}

NoRest == [author |-> "", publisher |-> "", year |-> 0]
NoArgs == [id |-> 0, title |-> <<>>, rest |-> NoRest]
NoCall == [method |-> "none", stmts |-> 0, status |-> "none", error |-> "none"]
NoThrow == <<>>
ServerNotices == { <<>>, <<"NOTICE">> }    \* what the server sends along with one statement

(***************************************************************************)
(* Text helpers                                                            *)
(***************************************************************************)
DigitChars == <<"0", "1", "2", "3", "4", "5", "6", "7", "8", "9">>

RECURSIVE NatStr(_)
NatStr(n) ==
    IF n < 10 THEN <<DigitChars[n + 1]>>
    ELSE NatStr(n \div 10) \o <<DigitChars[(n % 10) + 1]>>

\* std::to_string(int)
to_string(n) == IF n < 0 THEN <<"-">> \o NatStr(-n) ELSE NatStr(n)

DigitVal(c) == CHOOSE d \in 0..9 : DigitChars[d + 1] = c

RECURSIVE ParseNat(_, _)
ParseNat(s, acc) ==
    IF s = <<>> THEN acc ELSE ParseNat(Tail(s), acc * 10 + DigitVal(Head(s)))

\* std::stoi on a decimal text; the server's INT input conversion reads the same text
stoi(s) == IF s # <<>> /\ Head(s) = "-" THEN -ParseNat(Tail(s), 0) ELSE ParseNat(s, 0)

\* lower() of one character and of a text
LowerChar(c) == CASE c = "A" -> "a" [] c = "B" -> "b" [] OTHER -> c
Lower(s) == [i \in 1..Len(s) |-> LowerChar(s[i])]

Suffix(t, k) == SubSeq(t, k + 1, Len(t))

\* LIKE with the default escape character: % any run, _ any one character,
\* backslash takes the next pattern character literally
RECURSIVE Like(_, _)
Like(t, p) ==
    IF p = <<>> THEN t = <<>>
    ELSE IF Head(p) = "%" THEN \E k \in 0..Len(t) : Like(Suffix(t, k), Tail(p))
    ELSE IF Head(p) = "\\" THEN
        /\ Len(p) >= 2
        /\ t # <<>>
        /\ Head(t) = p[2]
        /\ Like(Tail(t), Tail(Tail(p)))
    ELSE IF Head(p) = "_" THEN t # <<>> /\ Like(Tail(t), Tail(p))
    ELSE t # <<>> /\ Head(t) = Head(p) /\ Like(Tail(t), Tail(p))

ILike(t, p) == Like(Lower(t), Lower(p))

(***************************************************************************)
(* Stored procedures (initProcedures)                                      *)
(***************************************************************************)
sp_create_table(ts) == IF ts = "absent" THEN "present" ELSE ts

sp_clear_table(t) == {}

sp_add_book(t, id, title, author, publisher, yearText) ==
    t \cup {[id |-> id, title |-> title, author |-> author,
             publisher |-> publisher, year |-> stoi(yearText)]}

SearchPattern(filter) == <<"%">> \o filter \o <<"%">>

sp_search_book_by_title(t, filter) ==
    {r \in t : ILike(r.title, SearchPattern(filter))}

sp_update_book_KeepsTitle(t, idText, title, author, publisher, yearText) ==
    {IF r.id = stoi(idText)
        THEN [id |-> r.id, title |-> r.title, author |-> author,
              publisher |-> publisher, year |-> stoi(yearText)]
        ELSE r : r \in t}

sp_update_book(t, idText, title, author, publisher, yearText) ==
    {IF r.id = stoi(idText)
        THEN [id |-> r.id, title |-> title, author |-> author,
              publisher |-> publisher, year |-> stoi(yearText)]
        ELSE r : r \in t}

sp_delete_book_by_title_AnyCase(t, title) == {r \in t : Lower(r.title) # Lower(title)}

sp_delete_book_by_title(t, title) == {r \in t : r.title # title}

(***************************************************************************)
(* Results and errors                                                      *)
(***************************************************************************)
\* status of a CALL that needs the table named tableName
TableCallStatus(fault, ts) ==
    IF fault \/ ts # "present" THEN "PGRES_FATAL_ERROR" ELSE "PGRES_COMMAND_OK"

\* status of a CALL that does not touch the table
CallStatus(fault) == IF fault THEN "PGRES_FATAL_ERROR" ELSE "PGRES_COMMAND_OK"

\* status of the search query: the existence test ignores letter case, the SELECT does not
SearchStatus(fault, ts) ==
    IF fault \/ ts = "clash" THEN "PGRES_FATAL_ERROR" ELSE "PGRES_TUPLES_OK"

\* PQerrorMessage
ErrorMessage(fault, status) ==
    IF status # "PGRES_FATAL_ERROR" THEN "none"
    ELSE IF fault THEN "ERROR: server fault" ELSE "ERROR: relation does not exist"

\* checkResult: the text of the runtime_error it throws, or NoThrow
checkResult(status, error, errMsg) ==
    IF status # "PGRES_COMMAND_OK" /\ status # "PGRES_TUPLES_OK"
        THEN <<errMsg, ": ", error>>
        ELSE NoThrow

\* the result set of the search as text tuples, in id order
RECURSIVE ResultRows(_)
ResultRows(s) ==
    IF s = {} THEN <<>>
    ELSE LET r == CHOOSE x \in s : \A y \in s : x.id <= y.id
         IN <<[id |-> to_string(r.id), title |-> r.title, author |-> r.author,
               publisher |-> r.publisher, year |-> to_string(r.year)]>>
            \o ResultRows(s \ {r})

DecodeRows_SkipFirst(res) ==
    [i \in 1..(Len(res) - 1) |->
        [id |-> stoi(res[i + 1].id), title |-> res[i + 1].title, author |-> res[i + 1].author,
         publisher |-> res[i + 1].publisher, year |-> stoi(res[i + 1].year)]]

\* the decoding loop of searchBookByTitle
DecodeRows(res) ==
    [i \in 1..Len(res) |->
        [id |-> stoi(res[i].id), title |-> res[i].title, author |-> res[i].author,
         publisher |-> res[i].publisher, year |-> stoi(res[i].year)]]

(***************************************************************************)
(* Menu dispatch conditions                                                *)
(***************************************************************************)
IsAdminName(u) == u = "admin"

Privileged_NoRoleCheck(c, admin) == c \in (1..7) \cup {10}

\* the "choice == n && isAdmin" branches
Privileged(c, admin) == c \in ((1..7) \cup {10}) /\ admin

IsExit_Eleven(c, admin) == c = 11

IsExit(c, admin) == (c = 10 /\ ~admin) \/ (c = 11 /\ admin)

Dispatched(c, admin) == Privileged(c, admin) \/ c \in {8, 9} \/ IsExit(c, admin)

(***************************************************************************)
(* Outcome of one iteration                                                *)
(***************************************************************************)
\* the success line at the end of the branch, or the line of the catch handler
Outcome(what, line) ==
    IF what = NoThrow
        THEN <<[kind |-> "success", text |-> <<line>>]>>
        ELSE <<[kind |-> "error", text |-> <<"Error: ">> \o what]>>

AfterAction_Abort(what) == IF what = NoThrow THEN "AwaitingChoice" ELSE "Aborted"

\* both the end of the try block and the catch handler fall through to the loop test
AfterAction(what) == "AwaitingChoice"

Issue_Retry(n, status) == IF status = "PGRES_FATAL_ERROR" THEN n + 2 ELSE n + 1

\* PQexecParams is called once for the statement
Issue(n, status) == n + 1

NoticesAfter_CatchKeeps(what) == what # NoThrow

\* g_printNotices = false as the last statement of the try block and of the catch handler
NoticesAfter(what) == FALSE

Complete(what, line) ==
    /\ outs' = outs \o Outcome(what, line)
    /\ g_printNotices' = NoticesAfter(what)
    /\ pc' = AfterAction(what)

myNoticeProcessor_Always(printNotices, msgs) == msgs

\* the callback registered on conn_, with arg = &g_printNotices
myNoticeProcessor(printNotices, msgs) == IF printNotices THEN msgs ELSE <<>>

\* a statement on conn_: the notices it sends go through myNoticeProcessor
PrimaryNotices == \E msgs \in ServerNotices : echoed' = myNoticeProcessor(g_printNotices, msgs)

\* a statement on connTemp, which has libpq's own notice processor: it prints them
AdminNotices == \E msgs \in ServerNotices : echoed' = msgs

Called(method, status, error) ==
    [method |-> method, stmts |-> Issue(call.stmts, status), status |-> status, error |-> error]

(***************************************************************************)
(* Initial state: the prompts for database, user and password are answered *)
(***************************************************************************)
Init ==
    /\ pc = "Connecting"
    /\ username \in Usernames
    /\ isAdmin = FALSE
    /\ exitFlag = FALSE
    /\ g_printNotices = FALSE
    /\ choice = 0
    /\ args = NoArgs
    /\ books = <<>>
    /\ outs = <<>>
    /\ call = NoCall
    /\ primaryOpen = FALSE
    /\ adminOpen = 0
    /\ tableState \in TableStates
    /\ rows = {}
    /\ nextId = 1
    /\ written = {}
    /\ echoed = <<>>

Server == <<tableState, rows, nextId, written>>
Session == <<username, isAdmin, exitFlag, primaryOpen>>
Locals == <<args, books>>

(***************************************************************************)
(* Setup                                                                   *)
(***************************************************************************)
\* isAdmin is computed, then DBManager's constructor runs connect()
Connect ==
    /\ pc = "Connecting"
    /\ isAdmin' = IsAdminName(username)
    /\ \E ok \in BOOLEAN :
        IF ok
            THEN /\ primaryOpen' = TRUE
                 /\ pc' = "Provisioning"
                 /\ outs' = outs
            ELSE /\ primaryOpen' = FALSE
                 /\ pc' = "Aborted"
                 /\ outs' = <<[kind |-> "critical",
                              text |-> <<"Critical error: ", "Error connecting to DB: ",
                                         "FATAL: connection refused">>]>>
    /\ UNCHANGED <<username, exitFlag, g_printNotices, choice, args, books, call,
                   adminOpen, tableState, rows, nextId, written, echoed>>

InitProcedures ==
    /\ pc = "Provisioning"
    /\ \E fault \in BOOLEAN :
        LET status == CallStatus(fault)
            what == checkResult(status, ErrorMessage(fault, status),
                                "Error initializing stored procedures")
        IN IF what = NoThrow
            THEN /\ pc' = "AwaitingChoice"
                 /\ outs' = outs
                 /\ primaryOpen' = primaryOpen
            ELSE /\ pc' = "Aborted"
                 /\ outs' = <<[kind |-> "critical", text |-> <<"Critical error: ">> \o what]>>
                 /\ primaryOpen' = FALSE
    /\ PrimaryNotices
    /\ UNCHANGED <<username, isAdmin, exitFlag, g_printNotices, choice, args, books, call,
                   adminOpen, tableState, rows, nextId, written>>

(***************************************************************************)
(* Menu loop                                                               *)
(***************************************************************************)
\* top of the loop up to the first statement of the try block
ReadChoice ==
    /\ pc = "AwaitingChoice"
    /\ ~exitFlag
    /\ \E c \in Choices : choice' = c
    /\ g_printNotices' = TRUE
    /\ args' = NoArgs
    /\ books' = <<>>
    /\ outs' = <<>>
    /\ call' = NoCall
    /\ echoed' = <<>>
    /\ pc' = "ExecutingAction"
    /\ UNCHANGED <<Session, adminOpen, Server>>

\* createDatabase and dropDatabase: the same code but for the procedure and the texts
AdminDbCall(method, errMsg, line) ==
    \E connOk \in BOOLEAN, fault \in BOOLEAN :
        /\ connOk => adminOpen < MaxAdminConns
        /\ IF ~connOk
            THEN /\ call' = [method |-> method, stmts |-> call.stmts,
                             status |-> "CONNECTION_BAD",
                             error |-> "FATAL: connection refused"]
                 /\ adminOpen' = adminOpen
                 /\ echoed' = <<>>
                 /\ Complete(<<"Error connecting to postgres: ", "FATAL: connection refused">>,
                             line)
            ELSE LET status == CallStatus(fault)
                     error == ErrorMessage(fault, status)
                     what == checkResult(status, error, errMsg)
                 IN /\ call' = Called(method, status, error)
                    /\ adminOpen' = IF what = NoThrow THEN adminOpen ELSE adminOpen + 1
                    /\ AdminNotices
                    /\ Complete(what, line)
        /\ UNCHANGED <<Session, choice, Locals, Server>>

CreateDatabase ==
    /\ pc = "ExecutingAction"
    /\ choice = 1 /\ Privileged(choice, isAdmin)
    /\ AdminDbCall("createDatabase", "Error creating database", "Database created.")

DropDatabase ==
    /\ pc = "ExecutingAction"
    /\ choice = 2 /\ Privileged(choice, isAdmin)
    /\ AdminDbCall("dropDatabase", "Error dropping database", "Database dropped.")

CreateTable ==
    /\ pc = "ExecutingAction"
    /\ choice = 3 /\ Privileged(choice, isAdmin)
    /\ \E fault \in BOOLEAN :
        LET status == CallStatus(fault)
            error == ErrorMessage(fault, status)
            what == checkResult(status, error, "Error creating table")
        IN /\ call' = Called("createTable", status, error)
           /\ tableState' = IF what = NoThrow THEN sp_create_table(tableState) ELSE tableState
           /\ PrimaryNotices
           /\ Complete(what, "Table created.")
    /\ UNCHANGED <<Session, choice, Locals, adminOpen, rows, nextId, written>>

ClearTable ==
    /\ pc = "ExecutingAction"
    /\ choice = 4 /\ Privileged(choice, isAdmin)
    /\ \E fault \in BOOLEAN :
        LET status == TableCallStatus(fault, tableState)
            error == ErrorMessage(fault, status)
            what == checkResult(status, error, "Error clearing table")
        IN /\ call' = Called("clearTable", status, error)
           /\ rows' = IF what = NoThrow THEN sp_clear_table(rows) ELSE rows
           /\ written' = IF what = NoThrow THEN {} ELSE written
           /\ PrimaryNotices
           /\ Complete(what, "Table cleared.")
    /\ UNCHANGED <<Session, choice, Locals, adminOpen, tableState, nextId>>

AddBook ==
    /\ pc = "ExecutingAction"
    /\ choice = 5 /\ Privileged(choice, isAdmin)
    /\ \E title \in Titles, rest \in Rests, fault \in BOOLEAN :
        LET status == TableCallStatus(fault, tableState)
            error == ErrorMessage(fault, status)
            what == checkResult(status, error, "Error adding book")
        IN /\ what = NoThrow => nextId <= MaxId
           /\ args' = [id |-> 0, title |-> title, rest |-> rest]
           /\ call' = Called("addBook", status, error)
           /\ rows' = IF what = NoThrow
                        THEN sp_add_book(rows, nextId, title, rest.author, rest.publisher,
                                         to_string(rest.year))
                        ELSE rows
           /\ nextId' = IF what = NoThrow THEN nextId + 1 ELSE nextId
           /\ written' = IF what = NoThrow
                           THEN written \cup {[id |-> nextId, via |-> "add",
                                               title |-> title, rest |-> rest]}
                           ELSE written
           /\ PrimaryNotices
           /\ Complete(what, "Book added.")
    /\ UNCHANGED <<Session, choice, books, adminOpen, tableState>>

UpdateBook ==
    /\ pc = "ExecutingAction"
    /\ choice = 6 /\ Privileged(choice, isAdmin)
    /\ \E id \in IdInputs, title \in Titles, rest \in Rests, fault \in BOOLEAN :
        LET status == TableCallStatus(fault, tableState)
            error == ErrorMessage(fault, status)
            what == checkResult(status, error, "Error updating book")
        IN /\ args' = [id |-> id, title |-> title, rest |-> rest]
           /\ call' = Called("updateBook", status, error)
           /\ rows' = IF what = NoThrow
                        THEN sp_update_book(rows, to_string(id), title, rest.author,
                                            rest.publisher, to_string(rest.year))
                        ELSE rows
           /\ written' = IF what = NoThrow /\ id \in {r.id : r \in rows}
                           THEN {w \in written : w.id # id}
                                \cup {[id |-> id, via |-> "update",
                                       title |-> title, rest |-> rest]}
                           ELSE written
           /\ PrimaryNotices
           /\ Complete(what, "Book updated.")
    /\ UNCHANGED <<Session, choice, books, adminOpen, tableState, nextId>>

DeleteBookByTitle ==
    /\ pc = "ExecutingAction"
    /\ choice = 7 /\ Privileged(choice, isAdmin)
    /\ \E title \in Titles, fault \in BOOLEAN :
        LET status == TableCallStatus(fault, tableState)
            error == ErrorMessage(fault, status)
            what == checkResult(status, error, "Error deleting book")
        IN /\ args' = [id |-> 0, title |-> title, rest |-> NoRest]
           /\ call' = Called("deleteBookByTitle", status, error)
           /\ rows' = IF what = NoThrow THEN sp_delete_book_by_title(rows, title) ELSE rows
           /\ written' = IF what = NoThrow THEN {w \in written : w.title # title}
                           ELSE written
           /\ PrimaryNotices
           /\ Complete(what, "Book deleted.")
    /\ UNCHANGED <<Session, choice, books, adminOpen, tableState, nextId>>

\* searchBookByTitle followed by printBooks
SearchCall(filter) ==
    \E fault \in BOOLEAN :
        LET status == SearchStatus(fault, tableState)
            error == ErrorMessage(fault, status)
            what == IF status # "PGRES_TUPLES_OK" THEN <<"Error searching for book">>
                    ELSE NoThrow
            found == IF tableState = "present" THEN sp_search_book_by_title(rows, filter)
                     ELSE {}
        IN /\ args' = [id |-> 0, title |-> filter, rest |-> NoRest]
           /\ call' = Called("searchBookByTitle", status, error)
           /\ books' = IF what = NoThrow THEN DecodeRows(ResultRows(found)) ELSE <<>>
           /\ PrimaryNotices
           /\ Complete(what, "books")
           /\ UNCHANGED <<Session, choice, adminOpen, Server>>

SearchBook ==
    /\ pc = "ExecutingAction"
    /\ choice = 8
    /\ \E filter \in Filters : SearchCall(filter)

ViewAll ==
    /\ pc = "ExecutingAction"
    /\ choice = 9
    /\ SearchCall(<<>>)

CreateDBUser ==
    /\ pc = "ExecutingAction"
    /\ choice = 10 /\ Privileged(choice, isAdmin)
    /\ \E fault \in BOOLEAN :
        LET status == CallStatus(fault)
            error == ErrorMessage(fault, status)
            what == checkResult(status, error, "Error creating DB user")
        IN /\ call' = Called("createDBUser", status, error)
           /\ PrimaryNotices
           /\ Complete(what, "New DB user created.")
    /\ UNCHANGED <<Session, choice, Locals, adminOpen, Server>>

\* exitFlag = true; the loop test fails and DBManager's destructor closes conn_
Exit ==
    /\ pc = "ExecutingAction"
    /\ ~Privileged(choice, isAdmin) /\ choice \notin {8, 9}
    /\ IsExit(choice, isAdmin)
    /\ exitFlag' = TRUE
    /\ g_printNotices' = FALSE
    /\ primaryOpen' = FALSE
    /\ pc' = "Exited"
    /\ UNCHANGED <<username, isAdmin, choice, Locals, outs, call, adminOpen, Server, echoed>>

Invalid ==
    /\ pc = "ExecutingAction"
    /\ ~Dispatched(choice, isAdmin)
    /\ outs' = Append(outs, [kind |-> "invalid",
                 text |-> <<"Invalid choice or operation not available for the current role.">>])
    /\ g_printNotices' = FALSE
    /\ pc' = "AwaitingChoice"
    /\ UNCHANGED <<Session, choice, Locals, call, adminOpen, Server, echoed>>

Next ==
    \/ Connect
    \/ InitProcedures
    \/ ReadChoice
    \/ CreateDatabase
    \/ DropDatabase
    \/ CreateTable
    \/ ClearTable
    \/ AddBook
    \/ UpdateBook
    \/ DeleteBookByTitle
    \/ SearchBook
    \/ ViewAll
    \/ CreateDBUser
    \/ Exit
    \/ Invalid

Spec == Init /\ [][Next]_vars

TypeOK ==
    /\ pc \in {"Connecting", "Provisioning", "AwaitingChoice", "ExecutingAction",
               "Exited", "Aborted"}
    /\ username \in Usernames
    /\ isAdmin \in BOOLEAN /\ exitFlag \in BOOLEAN /\ g_printNotices \in BOOLEAN
    /\ choice \in Choices
    /\ primaryOpen \in BOOLEAN
    /\ adminOpen \in 0..MaxAdminConns
    /\ tableState \in TableStates
    /\ nextId \in 1..(MaxId + 1)
    /\ \A r \in rows : r.id \in 1..(nextId - 1)
    /\ {w.id : w \in written} = {r.id : r \in rows}
    /\ tableState # "present" => rows = {}
    /\ echoed \in ServerNotices

(***************************************************************************)
(* Properties                                                              *)
(***************************************************************************)
Restricted == username # "admin"

PrivilegedMethods ==
    {"createDatabase", "dropDatabase", "createTable", "clearTable", "addBook",
     "updateBook", "deleteBookByTitle", "createDBUser"}

InvalidLine ==
    [kind |-> "invalid",
     text |-> <<"Invalid choice or operation not available for the current role.">>]

BookOf(w) ==
    [id |-> w.id, title |-> w.title, author |-> w.rest.author,
     publisher |-> w.rest.publisher, year |-> w.rest.year]

Returned == {books[i] : i \in DOMAIN books}

\* f occurs in t, letter case ignored
CISubstring(f, t) ==
    \E i \in 0..(Len(t) - Len(f)) : Lower(SubSeq(t, i + 1, i + Len(f))) = Lower(f)

\* the iteration that just ended ran a search that returned rows
Searched ==
    /\ pc = "AwaitingChoice"
    /\ call.method = "searchBookByTitle"
    /\ call.status = "PGRES_TUPLES_OK"

\* the iteration that just ended ran the action of a choice the role may take
RanAction ==
    /\ pc = "AwaitingChoice"
    /\ choice \in {8, 9} \/ (choice \in (1..7) \cup {10} /\ username = "admin")

\* C1 as stated: in a restricted session the choices 1-7 and 10 (create user) all
\* end back in AwaitingChoice with the diagnostic line and without a remote call.
C1_RejectedWithDiagnostic ==
    (Restricted /\ choice \in (1..7) \cup {10} /\ pc \notin {"Connecting", "Provisioning"})
        => /\ call = NoCall
           /\ pc \in {"ExecutingAction", "AwaitingChoice"}
           /\ pc = "AwaitingChoice" => outs = <<InvalidLine>>

\* C1 amended: in a restricted session no privileged method is ever called; the
\* choices 1-7 end back in AwaitingChoice with the diagnostic line and no remote
\* call; choice 10 is the exit choice there: it issues no remote call and prints no
\* diagnostic, and the loop ends instead of going back to AwaitingChoice.
C1_RestrictedNeverPrivileged ==
    Restricted =>
        /\ call.method \notin PrivilegedMethods
        /\ (choice \in 1..7)
            => /\ call = NoCall
               /\ pc \in {"ExecutingAction", "AwaitingChoice"}
               /\ pc = "AwaitingChoice" => outs = <<InvalidLine>>
        /\ (choice = 10 /\ pc \notin {"Connecting", "Provisioning", "ExecutingAction"})
            => /\ call = NoCall
               /\ pc = "Exited"
               /\ outs = <<>>

C1_Witness ==
    /\ username = "Admin"
    /\ pc = "AwaitingChoice"
    /\ choice \in 1..7
    /\ outs = <<InvalidLine>>

\* C2: after a search that succeeded, every row that addBook inserted and that was not
\* updated, deleted or cleared since, and whose title contains the filter (letter case
\* ignored), is among the rows returned, with the fields that were inserted.
C2_AddedBookFound ==
    Searched =>
        \A w \in written :
            (w.via = "add" /\ CISubstring(args.title, w.title)) => BookOf(w) \in Returned

\* C3: a search never returns a row that was updated with anything but the fields of
\* its last successful update, and a successful update leaves the rows with other
\* ids as they were.
C3_UpdateThenSearch ==
    /\ [](Searched =>
            \A b \in Returned : \A w \in written :
                (w.id = b.id /\ w.via = "update") => b = BookOf(w))
    /\ [][(pc = "ExecutingAction" /\ call'.method = "updateBook"
                /\ call'.status = "PGRES_COMMAND_OK")
            => /\ {r \in rows' : r.id # args'.id} = {r \in rows : r.id # args'.id}
               /\ {r.id : r \in rows'} = {r.id : r \in rows}]_vars

C3_Witness ==
    /\ Searched
    /\ \E b \in Returned : \E w \in written : w.id = b.id /\ w.via = "update"
    /\ \E b \in Returned : \E w \in written : w.id = b.id /\ w.via = "add"

\* C4: a successful deleteBookByTitle with title T removes exactly the rows whose title
\* is T: a row whose title contains T, or is T in another letter case, stays.
C4_DeleteExactTitle ==
    [][(pc = "ExecutingAction" /\ call'.method = "deleteBookByTitle"
            /\ call'.status = "PGRES_COMMAND_OK")
        => /\ \A r \in rows : r.title = args'.title => r \notin rows'
           /\ \A r \in rows : r.title # args'.title => r \in rows'
           /\ rows' \subseteq rows]_vars

C4_Witness ==
    /\ pc = "AwaitingChoice"
    /\ call.method = "deleteBookByTitle"
    /\ call.status = "PGRES_COMMAND_OK"
    /\ Cardinality(rows) < nextId - 1
    /\ \E r \in rows : r.title # args.title /\ CISubstring(args.title, r.title)

\* C5: a listing (choice 9) that succeeded returns exactly the rows of the table,
\* each once.
C5_ListingIsTable ==
    (Searched /\ choice = 9) =>
        /\ Returned = rows
        /\ Len(books) = Cardinality(rows)

C5_Witness ==
    /\ Searched
    /\ choice = 9
    /\ Len(books) = 2
    /\ \E r \in rows : r.id \notin {w.id : w \in {x \in written : x.via = "add"}}

\* C6: a failed remote call or a failed administrative connection ends only the
\* action: the error is printed and the loop is back in AwaitingChoice with exitFlag
\* false. The session aborts only from the connection or the provisioning step.
C6_ActionFailureNotFatal ==
    [][/\ (pc = "ExecutingAction"
            /\ call'.status \in {"PGRES_FATAL_ERROR", "CONNECTION_BAD"})
            => /\ pc' = "AwaitingChoice"
               /\ ~exitFlag'
               /\ Len(outs') = 1 /\ outs'[1].kind = "error"
       /\ pc' = "Aborted" => pc \in {"Connecting", "Provisioning"}
       /\ pc' = "Exited" => call' = NoCall]_vars

C6_Witness ==
    /\ pc = "AwaitingChoice"
    /\ call.status = "PGRES_FATAL_ERROR"
    /\ call.method = "dropDatabase"
    /\ outs[1].kind = "error"

\* C7 as stated: every action of a permitted choice issues exactly one remote
\* statement and prints exactly one outcome.
C7_ExactlyOneCall ==
    RanAction =>
        /\ call.stmts = 1
        /\ Len(outs) = 1
        /\ outs[1].kind \in {"success", "error"}

\* C7 amended: every action of a permitted choice issues exactly one remote statement,
\* except that create database and drop database issue none when their administrative
\* connection cannot be opened; no statement is issued twice; exactly one outcome is
\* printed, and the loop is back in AwaitingChoice after the action.
C7_OneCallUnlessNoConnection ==
    /\ [](RanAction =>
            /\ call.stmts = (IF call.status = "CONNECTION_BAD" THEN 0 ELSE 1)
            /\ call.status = "CONNECTION_BAD" => call.method \in {"createDatabase", "dropDatabase"}
            /\ Len(outs) = 1
            /\ outs[1].kind = (IF call.status \in {"PGRES_COMMAND_OK", "PGRES_TUPLES_OK"}
                                 THEN "success" ELSE "error"))
    /\ [][(pc = "ExecutingAction"
            /\ (choice \in {8, 9} \/ (choice \in (1..7) \cup {10} /\ username = "admin")))
          => pc' = "AwaitingChoice"]_vars

C7_Witness ==
    /\ RanAction
    /\ call.status = "CONNECTION_BAD"
    /\ call.stmts = 0
    /\ Len(outs) = 1

Description(method) ==
    CASE method = "createDatabase" -> "Error creating database"
      [] method = "dropDatabase" -> "Error dropping database"
      [] method = "createTable" -> "Error creating table"
      [] method = "clearTable" -> "Error clearing table"
      [] method = "addBook" -> "Error adding book"
      [] method = "searchBookByTitle" -> "Error searching for book"
      [] method = "updateBook" -> "Error updating book"
      [] method = "deleteBookByTitle" -> "Error deleting book"
      [] method = "createDBUser" -> "Error creating DB user"
      [] OTHER -> "none"

\* C8: when the remote call of an action ends with a non-success status, the line
\* printed is the description of the action followed by the server's error text.
C8_ErrorCarriesServerText ==
    (pc = "AwaitingChoice" /\ call.status = "PGRES_FATAL_ERROR") =>
        outs = <<[kind |-> "error",
                  text |-> <<"Error: ", Description(call.method), ": ", call.error>>]>>

\* C9: no administrative connection is open while the loop awaits a choice.
C9_AdminConnectionClosed ==
    pc = "AwaitingChoice" => adminOpen = 0

\* C10: the loop ends exactly on choice 11 in a privileged session and on choice 10 in
\* a restricted one; that step issues no remote call; nothing runs after Exited.
C10_ExitOnlyOnExitChoice ==
    [][/\ pc # "Exited"
       /\ (pc = "ExecutingAction"
            /\ ((username = "admin" /\ choice = 11) \/ (username # "admin" /\ choice = 10)))
            => pc' = "Exited"
       /\ pc' = "Exited"
            => /\ pc = "ExecutingAction"
               /\ (username = "admin" /\ choice = 11) \/ (username # "admin" /\ choice = 10)
               /\ call' = NoCall /\ call = NoCall
               /\ exitFlag'
       /\ exitFlag' => pc' = "Exited"
       /\ pc' = "AwaitingChoice" => ~exitFlag']_vars

C10_Witness ==
    /\ pc = "Exited"
    /\ username = "guest"
    /\ choice = 10
    /\ exitFlag
    /\ call = NoCall

\* C11: g_printNotices is true exactly while the try block of a menu action runs: it
\* is false during connection and provisioning, whenever the loop awaits a choice and
\* after the loop, on the success path and on the caught-error path alike; and a
\* notice reaches cerr only in a step of a menu action, with the flag true.
C11_NoticesOnlyDuringAction ==
    /\ [](g_printNotices <=> pc = "ExecutingAction")
    /\ [][(echoed' # <<>> /\ echoed' # echoed)
            => (pc = "ExecutingAction" /\ g_printNotices)]_vars

C11_Witness ==
    /\ pc = "AwaitingChoice"
    /\ ~g_printNotices
    /\ call.method = "addBook"
    /\ outs[1].kind = "error"
    /\ echoed = <<"NOTICE">>
====
